---- MODULE Spec2Model ----
(***************************************************************************)
(* The Network actor of raftor (src/network/network.rs) and its RaftNetwork*)
(* handlers (src/raft/network.rs): configuration, the settle timer that    *)
(* decides SingleNode or Cluster, the connection tracker, inbound routing  *)
(* of SendToRaft to the Raft engine, outbound routing of the engine's      *)
(* three requests to the peer Node actors, and the metrics map.            *)
(***************************************************************************)
EXTENDS Integers, Sequences, FiniteSets, TLC

VARIABLES
    id,               \* Network.id
    address,          \* Network.address : Option<String>
    raft,             \* Network.raft : Option<RaftNode>
    peers,            \* Network.peers : Vec<String>
    nodes,            \* Network.nodes : HashMap<NodeId, Addr<Node>>
    nodes_connected,  \* Network.nodes_connected : Vec<NodeId>
    listener,         \* Network.listener : Option<Addr<Listener>>
    state,            \* Network.state : NetworkState
    metrics,          \* Network.metrics : BTreeMap<NodeId, RaftMetrics>
    sessions,         \* Network.sessions : HashMap<NodeId, Addr<NodeSession>>
    phase,            \* life of the actor: "new", "running", "panicked"
    timer,            \* the run_later closure: "unarmed", "armed", "fired"
    inbound,          \* one record per SendToRaft message handled, in order
    raft_mailbox,     \* messages sent to raft.addr, in order
    outbound,         \* one record per engine request handled, in order
    node_mailbox,     \* messages sent to Addr<Node> handles, in order
    init_future       \* the future spawned for the InitWithConfig command

vars == <<id, address, raft, peers, nodes, nodes_connected, listener, state,
          metrics, sessions, phase, timer, inbound, raft_mailbox, outbound,
          node_mailbox, init_future>>

netvars == <<id, address, raft, peers, nodes, nodes_connected, listener, state,
             metrics, sessions>>

----------------------------------------------------------------------------
(* Bounds of the model *)

MaxPeers == 2
MaxConnected == 2
MaxAnnounced == 3
MaxRpc == 2
MaxTerm == 2
MaxLiveRpc == 1
MaxRegistryRpc == 1

----------------------------------------------------------------------------
(* Values *)

None == [some |-> FALSE]
Some(x) == [some |-> TRUE, val |-> x]

Addrs == {"A", "B", "C"}

\* crate::utils::generate_node_id: a deterministic hash of the address text
GenerateNodeId(addr) ==
    CASE addr = "A" -> 17
      [] addr = "B" -> 42
      [] addr = "C" -> 29

NodeIds == {GenerateNodeId(a) : a \in Addrs}

NetworkState == {"Initialized", "SingleNode", "Cluster"}

Recognized == {"AppendEntriesRequest", "VoteRequest", "InstallSnapshotRequest"}
MsgTypes == Recognized \cup {"Other"}

\* The typed requests of actix_raft::messages, reduced to the fields used here
Terms == {1, 2}

Requests == [type : Recognized, target : NodeIds, term : Terms]

ResponseType(t) ==
    CASE t = "AppendEntriesRequest" -> "AppendEntriesResponse"
      [] t = "VoteRequest" -> "VoteResponse"
      [] t = "InstallSnapshotRequest" -> "InstallSnapshotResponse"

\* What a handler of request req may answer: Result<Response, ()>
Results(req) == {[ok |-> TRUE, type |-> ResponseType(req.type), term |-> req.term],
                 [ok |-> FALSE, type |-> ResponseType(req.type), term |-> req.term]}

\* serde_json::to_string
to_string(v) == [fmt |-> "json", val |-> v]

Garbage == [fmt |-> "garbage", val |-> None]
EmptyString == [fmt |-> "empty", val |-> None]

\* serde_json::from_slice::<T>(body): Some(request) when body is the JSON of a T
FromSlice(t, body) ==
    IF body.fmt = "json" /\ body.val \in Requests /\ body.val.type = t
    THEN Some(body.val) ELSE None

\* Result<String, ()> as seen by the caller of SendToRaft
Ok(s) == [ok |-> TRUE, val |-> s]
Err == [ok |-> FALSE, val |-> None]

\* The future Arbiter::spawn is given for raft_node.addr.send(init_msg): not
\* spawned, waiting, or resolved with res; logged tells whether and_then ran
\* its println
NoFuture == [fut |-> "none", res |-> "", logged |-> FALSE]
PendingFuture == [fut |-> "pending", res |-> "", logged |-> FALSE]

----------------------------------------------------------------------------
(* Network::new *)

Init ==
    /\ id = 0
    /\ address = None
    /\ peers = << >>
    /\ nodes = << >>
    /\ raft = None
    /\ listener = None
    /\ nodes_connected = << >>
    /\ state = "Initialized"
    /\ metrics = << >>
    /\ sessions = << >>
    /\ phase = "new"
    /\ timer = "unarmed"
    /\ inbound = << >>
    /\ raft_mailbox = << >>
    /\ outbound = << >>
    /\ node_mailbox = << >>
    /\ init_future = NoFuture

----------------------------------------------------------------------------
(* HashMap / BTreeMap *)

\* An insert that keeps the entry a key already has (entry().or_insert())
InsertIfAbsent(m, k, v) ==
    [x \in (DOMAIN m) \cup {k} |-> IF x \in DOMAIN m THEN m[x] ELSE v]

\* HashMap::insert / BTreeMap::insert
Insert(m, k, v) == [x \in (DOMAIN m) \cup {k} |-> IF x = k THEN v ELSE m[x]]
Get(m, k) == IF k \in DOMAIN m THEN Some(m[k]) ELSE None

----------------------------------------------------------------------------
(* Configuration, before the actor is started *)

\* Network::peers
Peers(ps) ==
    /\ phase = "new"
    /\ peers' = peers \o ps
    /\ UNCHANGED <<init_future, id, address, raft, nodes, nodes_connected,
                   listener, state, metrics, sessions, phase, timer, inbound,
                   raft_mailbox, outbound, node_mailbox>>

\* Network::listen
Listen(a) ==
    /\ phase = "new"
    /\ address' = Some(a)
    /\ id' = GenerateNodeId(a)
    /\ UNCHANGED <<init_future, raft, peers, nodes, nodes_connected, listener,
                   state, metrics, sessions, phase, timer, inbound,
                   raft_mailbox, outbound, node_mailbox>>

\* Node::new(id, self.id, peer_addr), the handle of the peer's Node actor
NewNode(nid, local, peer_addr) == [id |-> nid, local |-> local, addr |-> peer_addr]

\* Network::register_node, on the registry ns of the node local
RegisterNode(ns, local, peer_addr) ==
    LET nid == GenerateNodeId(peer_addr)
    IN  Insert(ns, nid, NewNode(nid, local, peer_addr))

\* A lookup that finds only the peers that have announced themselves
GetNodeConnected(nid) == IF nid \in DOMAIN sessions THEN Get(nodes, nid) ELSE None

\* Network::get_node
GetNode(nid) == Get(nodes, nid)

\* The loop of Network::started over the configured peers, from index i on
\* A registration loop that does not skip the node's own address
RECURSIVE RegisterPeersAll(_, _, _, _, _)
RegisterPeersAll(ns, local, network_address, ps, i) ==
    IF i > Len(ps) THEN ns
    ELSE RegisterPeersAll(RegisterNode(ns, local, ps[i]),
                          local, network_address, ps, i + 1)

RECURSIVE RegisterPeers(_, _, _, _, _)
RegisterPeers(ns, local, network_address, ps, i) ==
    IF i > Len(ps) THEN ns
    ELSE RegisterPeers(IF ps[i] # network_address
                       THEN RegisterNode(ns, local, ps[i]) ELSE ns,
                       local, network_address, ps, i + 1)

\* A start that registers the peers but does not arm the settle timer
StartedUnarmed ==
    /\ phase = "new"
    /\ IF ~address.some
       THEN /\ phase' = "panicked"
            /\ UNCHANGED <<listener, nodes_connected, nodes>>
       ELSE /\ listener' = Some(address.val)
            /\ nodes_connected' = Append(nodes_connected, id)
            /\ nodes' = RegisterPeers(nodes, id, address.val, peers, 1)
            /\ phase' = "running"
    /\ UNCHANGED <<init_future, id, address, raft, peers, state, metrics,
                   sessions, timer, inbound, raft_mailbox, outbound,
                   node_mailbox>>

\* Actor::started: address.unwrap() panics when listen was never called
Started ==
    /\ phase = "new"
    /\ IF ~address.some
       THEN /\ phase' = "panicked"
            /\ UNCHANGED <<listener, nodes_connected, nodes, timer>>
       ELSE /\ listener' = Some(address.val)
            /\ nodes_connected' = Append(nodes_connected, id)
            /\ nodes' = RegisterPeers(nodes, id, address.val, peers, 1)
            /\ timer' = "armed"
            /\ phase' = "running"
    /\ UNCHANGED <<init_future, id, address, raft, peers, state, metrics,
                   sessions, inbound, raft_mailbox, outbound, node_mailbox>>

----------------------------------------------------------------------------
(* The settle timer *)

\* An engine built from the peers alone, the local id left out
NewRaftNodeOfPeers(nid, members) ==
    [id |-> nid, members |-> SelectSeq(members, LAMBDA x : x # nid)]

\* RaftNode::new(id, members, network_addr)
NewRaftNode(nid, members) == [id |-> nid, members |-> members]

\* InitWithConfig::new(members)
InitWithConfig(members) == [type |-> "InitWithConfig", members |-> members]

\* A settle decision that asks for a majority of three instead of company
IsClusterOfThree(num_nodes) == num_nodes > 2

\* A settle decision that counts the node itself as a cluster
IsClusterAlone(num_nodes) == num_nodes >= 1

\* if num_nodes > 1
IsCluster(num_nodes) == num_nodes > 1

\* A closure that builds the engine whatever it decides
SettleTimerEngineAlways ==
    /\ phase = "running"
    /\ timer = "armed"
    /\ timer' = "fired"
    /\ state' = IF IsCluster(Len(nodes_connected))
                THEN "Cluster" ELSE "SingleNode"
    /\ raft' = Some(NewRaftNode(id, nodes_connected))
    /\ raft_mailbox' = Append(raft_mailbox,
            [msg |-> InitWithConfig(nodes_connected), from |-> 0])
    /\ init_future' = PendingFuture
    /\ UNCHANGED <<id, address, peers, nodes, nodes_connected, listener,
                   metrics, sessions, phase, inbound, outbound, node_mailbox>>

\* The closure given to ctx.run_later in Actor::started
SettleTimer ==
    /\ phase = "running"
    /\ timer = "armed"
    /\ timer' = "fired"
    /\ LET num_nodes == Len(nodes_connected)
       IN  IF IsCluster(num_nodes)
           THEN /\ state' = "Cluster"
                /\ raft' = Some(NewRaftNode(id, nodes_connected))
                /\ raft_mailbox' = Append(raft_mailbox,
                        [msg |-> InitWithConfig(nodes_connected), from |-> 0])
                /\ init_future' = PendingFuture
           ELSE /\ state' = "SingleNode"
                /\ UNCHANGED <<raft, raft_mailbox, init_future>>
    /\ UNCHANGED <<id, address, peers, nodes, nodes_connected, listener,
                   metrics, sessions, phase, inbound, outbound, node_mailbox>>

\* What raft_node.addr.send(init_msg) may resolve to: the engine's
\* Result<(), InitWithConfigError>, or a failure of its mailbox
InitOutcomes == {"Ok", "Err", "MailboxError"}

\* A future that drops the engine when its initialisation failed
InitFutureTeardown(res) ==
    /\ phase = "running"
    /\ init_future.fut = "pending"
    /\ init_future' = [fut |-> "done", res |-> res,
                       logged |-> res # "MailboxError"]
    /\ raft' = IF res = "Ok" THEN raft ELSE None
    /\ UNCHANGED <<id, address, peers, nodes, nodes_connected, listener,
                   state, metrics, sessions, phase, timer, inbound,
                   raft_mailbox, outbound, node_mailbox>>

\* The future spawned in the closure resolves: map_err(|_| ()) drops a mailbox
\* failure, and_then prints "Raft node init!" for whatever the engine answered
InitFuture(res) ==
    /\ phase = "running"
    /\ init_future.fut = "pending"
    /\ init_future' = [fut |-> "done", res |-> res,
                       logged |-> res # "MailboxError"]
    /\ UNCHANGED <<netvars, phase, timer, inbound, raft_mailbox, outbound,
                   node_mailbox>>

----------------------------------------------------------------------------
(* Connection tracker *)

\* A tracker that lets a late peer turn a single node into a cluster
HandlePeerConnectedLate(pid, session) ==
    /\ phase = "running"
    /\ nodes_connected' = Append(nodes_connected, pid)
    /\ sessions' = Insert(sessions, pid, session)
    /\ state' = IF state = "SingleNode" THEN "Cluster" ELSE state
    /\ UNCHANGED <<init_future, id, address, raft, peers, nodes, listener,
                   metrics, phase, timer, inbound, raft_mailbox, outbound,
                   node_mailbox>>

\* A tracker that stores the session but does not count the peer
HandlePeerConnectedUncounted(pid, session) ==
    /\ phase = "running"
    /\ sessions' = Insert(sessions, pid, session)
    /\ UNCHANGED <<init_future, id, address, raft, peers, nodes,
                   nodes_connected, listener, state, metrics, phase, timer,
                   inbound, raft_mailbox, outbound, node_mailbox>>

\* A handler that lists an id once however often it announces itself
HandlePeerConnectedOnce(pid, session) ==
    /\ phase = "running"
    /\ nodes_connected' = IF \E i \in 1..Len(nodes_connected) :
                                 nodes_connected[i] = pid
                          THEN nodes_connected
                          ELSE Append(nodes_connected, pid)
    /\ sessions' = Insert(sessions, pid, session)
    /\ UNCHANGED <<init_future, id, address, raft, peers, nodes, listener,
                   state, metrics, phase, timer, inbound, raft_mailbox,
                   outbound, node_mailbox>>

\* Handler<PeerConnected>::handle
HandlePeerConnected(pid, session) ==
    /\ phase = "running"
    /\ nodes_connected' = Append(nodes_connected, pid)
    /\ sessions' = Insert(sessions, pid, session)
    /\ UNCHANGED <<init_future, id, address, raft, peers, nodes, listener,
                   state, metrics, phase, timer, inbound, raft_mailbox,
                   outbound, node_mailbox>>

----------------------------------------------------------------------------
(* Metrics *)

\* A handler that keeps the first snapshot it got for an id
HandleRaftMetricsFirst(msg) ==
    /\ phase = "running"
    /\ metrics' = InsertIfAbsent(metrics, msg.id, msg)
    /\ UNCHANGED <<init_future, id, address, raft, peers, nodes,
                   nodes_connected, listener, state, sessions, phase, timer,
                   inbound, raft_mailbox, outbound, node_mailbox>>

\* BTreeMap::iter: the entries of m by ascending key
RECURSIVE Iterate(_)
Iterate(m) ==
    IF DOMAIN m = {} THEN << >>
    ELSE LET k == CHOOSE x \in DOMAIN m : \A y \in DOMAIN m : x <= y
         IN  <<<<k, m[k]>>>> \o Iterate([x \in DOMAIN m \ {k} |-> m[x]])

\* Handler<RaftMetrics>::handle
HandleRaftMetrics(msg) ==
    /\ phase = "running"
    /\ metrics' = Insert(metrics, msg.id, msg)
    /\ UNCHANGED <<init_future, id, address, raft, peers, nodes,
                   nodes_connected, listener, state, sessions, phase, timer,
                   inbound, raft_mailbox, outbound, node_mailbox>>

----------------------------------------------------------------------------
(* Inbound routing: peer session -> Network -> Raft engine *)

\* Failure of Addr::send, mapped to Err(()) by map_err
MailboxError == [ok |-> FALSE, type |-> "MailboxError", term |-> 0]

\* One SendToRaft message and what became of it.  fut is "none" when the
\* handler replied at once, "pending" while the future given to Response::fut
\* waits for the engine, "done" when it resolved, "panicked" when unwrap failed.
InboundEntry(type_id, body, fut, answer, reply) ==
    [type_id |-> type_id, body |-> body, fut |-> fut, answer |-> answer,
     reply |-> reply]

\* A dispatch that treats a message type outside the three as a failure
SendToRaftOutcomeStrict(type_id, body) ==
    IF raft.some
    THEN IF type_id \in Recognized /\ FromSlice(type_id, body).some
         THEN "forward" ELSE "panic"
    ELSE "reply_empty"

\* A dispatch that does not look whether there is an engine
SendToRaftOutcomeNoEngineCheck(type_id, body) ==
    IF type_id \in Recognized
    THEN IF FromSlice(type_id, body).some THEN "forward" ELSE "panic"
    ELSE "reply_empty"

\* A dispatch that answers a payload it cannot decode with the empty string
SendToRaftOutcomeLenient(type_id, body) ==
    IF raft.some /\ type_id \in Recognized /\ FromSlice(type_id, body).some
    THEN "forward" ELSE "reply_empty"

\* The branch Handler<SendToRaft>::handle takes: `if let Some(raft)`, then the
\* match on type_id, then from_slice(..).unwrap()
SendToRaftOutcome(type_id, body) ==
    IF raft.some
    THEN IF type_id \in Recognized
         THEN IF FromSlice(type_id, body).some THEN "forward" ELSE "panic"
         ELSE "reply_empty"
    ELSE "reply_empty"

\* Handler<SendToRaft>::handle
HandleSendToRaft(type_id, body) ==
    /\ phase = "running"
    /\ LET r == Len(inbound) + 1
           branch == SendToRaftOutcome(type_id, body)
       IN  CASE branch = "forward" ->
                  /\ raft_mailbox' = Append(raft_mailbox,
                         [msg |-> FromSlice(type_id, body).val, from |-> r])
                  /\ inbound' = Append(inbound,
                         InboundEntry(type_id, body, "pending", None, None))
                  /\ phase' = phase
             [] branch = "panic" ->
                  /\ inbound' = Append(inbound,
                         InboundEntry(type_id, body, "panicked", None, None))
                  /\ phase' = "panicked"
                  /\ UNCHANGED raft_mailbox
             [] branch = "reply_empty" ->
                  /\ inbound' = Append(inbound,
                         InboundEntry(type_id, body, "none", None,
                                      Some(Ok(EmptyString))))
                  /\ UNCHANGED <<raft_mailbox, phase>>
    /\ UNCHANGED <<init_future, netvars, timer, outbound, node_mailbox>>

\* A future that answers with the empty string whatever the engine said
SendToRaftReplyEmpty(res) ==
    IF res = MailboxError THEN Err ELSE Ok(EmptyString)

\* What the future of request r resolves to when the engine's outcome is res:
\* map_err(|_| ()) on a mailbox failure, to_string of the response otherwise
SendToRaftReply(res) ==
    IF res = MailboxError THEN Err ELSE Ok(to_string(res))

\* The future built by Handler<SendToRaft>::handle for request r resolves,
\* the engine having answered res (or its mailbox having failed)
SendToRaftFuture(r, res) ==
    /\ phase = "running"
    /\ r \in 1..Len(inbound)
    /\ inbound[r].fut = "pending"
    /\ inbound' = [inbound EXCEPT ![r] =
            [@ EXCEPT !.fut = "done",
                      !.answer = IF res = MailboxError THEN None ELSE Some(res),
                      !.reply = Some(SendToRaftReply(res))]]
    /\ UNCHANGED <<init_future, netvars, phase, timer, raft_mailbox, outbound,
                   node_mailbox>>

----------------------------------------------------------------------------
(* Outbound routing: Raft engine -> Network -> peer Node actor *)

\* SendRaftMessage(msg)
SendRaftMessage(msg) == [type |-> "SendRaftMessage", msg |-> msg]

OutboundEntry(msg, fut, answer, reply) ==
    [msg |-> msg, fut |-> fut, answer |-> answer, reply |-> reply]

\* A router that answers the engine with an error when the target is unknown
RouteToNodeOrErr(msg) ==
    /\ phase = "running"
    /\ LET o == Len(outbound) + 1
           node == GetNode(msg.target)
       IN  IF node.some
           THEN /\ node_mailbox' = Append(node_mailbox,
                       [to |-> node.val, msg |-> SendRaftMessage(msg), from |-> o])
                /\ outbound' = Append(outbound,
                       OutboundEntry(msg, "pending", None, None))
           ELSE /\ outbound' = Append(outbound,
                       OutboundEntry(msg, "done", None, Some(MailboxError)))
                /\ UNCHANGED node_mailbox
    /\ UNCHANGED <<init_future, netvars, phase, timer, inbound, raft_mailbox>>

\* The body shared by the three RaftNetwork handlers:
\* get_node(msg.target).unwrap(), node.send(SendRaftMessage(msg))
RouteToNode(msg) ==
    /\ phase = "running"
    /\ LET o == Len(outbound) + 1
           node == GetNode(msg.target)
       IN  IF node.some
           THEN /\ node_mailbox' = Append(node_mailbox,
                       [to |-> node.val, msg |-> SendRaftMessage(msg), from |-> o])
                /\ outbound' = Append(outbound,
                       OutboundEntry(msg, "pending", None, None))
                /\ phase' = phase
           ELSE /\ outbound' = Append(outbound,
                       OutboundEntry(msg, "panicked", None, None))
                /\ phase' = "panicked"
                /\ UNCHANGED node_mailbox
    /\ UNCHANGED <<init_future, netvars, timer, inbound, raft_mailbox>>

\* Handler<messages::AppendEntriesRequest<Data>>::handle
HandleAppendEntriesRequest(msg) ==
    msg.type = "AppendEntriesRequest" /\ RouteToNode(msg)

\* Handler<messages::VoteRequest>::handle
HandleVoteRequest(msg) ==
    msg.type = "VoteRequest" /\ RouteToNode(msg)

\* Handler<messages::InstallSnapshotRequest>::handle
HandleInstallSnapshotRequest(msg) ==
    msg.type = "InstallSnapshotRequest" /\ RouteToNode(msg)

\* and_then(|res, _, _| fut::result(res)): the node's answer, relayed
RelayResult(res) == res

\* The future built by a RaftNetwork handler for request o resolves: the Node
\* actor answered res, or its mailbox failed and map_err panics
RouteFuture(o, res) ==
    /\ phase = "running"
    /\ o \in 1..Len(outbound)
    /\ outbound[o].fut = "pending"
    /\ IF res = MailboxError
       THEN /\ outbound' = [outbound EXCEPT ![o] = [@ EXCEPT !.fut = "panicked"]]
            /\ phase' = "panicked"
       ELSE /\ outbound' = [outbound EXCEPT ![o] =
                   [@ EXCEPT !.fut = "done", !.answer = Some(res),
                             !.reply = Some(RelayResult(res))]]
            /\ phase' = phase
    /\ UNCHANGED <<init_future, netvars, timer, inbound, raft_mailbox,
                   node_mailbox>>

----------------------------------------------------------------------------
(* Specifications *)

Range(f) == {f[x] : x \in DOMAIN f}

RECURSIVE SeqsUpTo(_, _)
SeqsUpTo(S, n) ==
    IF n = 0 THEN {<< >>}
    ELSE LET shorter == SeqsUpTo(S, n - 1)
         IN  shorter \cup {Append(q, x) : q \in {t \in shorter : Len(t) = n - 1}, x \in S}

\* The well-formed body of a request of type t addressed to this node
GoodBody(t, term) == to_string([type |-> t, target |-> id, term |-> term])

\* Bodies tried with message type t: the JSON of a request (of type t when
\* t is one of the three), and text that is not JSON
BodiesFor(t) ==
    {GoodBody(IF t \in Recognized THEN t ELSE "VoteRequest", 1), Garbage}

\* What the engine may make of the messages it was sent for request r: an
\* answer to one of them, or a failure of its mailbox
RaftOutcomes(r) ==
    UNION {Results(raft_mailbox[i].msg) :
             i \in {j \in 1..Len(raft_mailbox) : raft_mailbox[j].from = r}}
      \cup {MailboxError}

\* The same for the Node actors and request o of the engine
NodeOutcomes(o) ==
    UNION {Results(node_mailbox[i].msg.msg) :
             i \in {j \in 1..Len(node_mailbox) : node_mailbox[j].from = o}}
      \cup {MailboxError}

\* The environment of the router: one configuration, any message, any order
Next ==
    \/ \E ps \in {<<"B", "C">>} : Len(peers) + Len(ps) <= MaxPeers /\ Peers(ps)
    \/ \E a \in {"A"} : Listen(a)
    \/ Started
    \/ SettleTimer
    \/ \E pid \in {GenerateNodeId("B")} :
          /\ Len(nodes_connected) <= MaxConnected
          /\ HandlePeerConnected(pid, Len(nodes_connected))
    \/ \E m \in [id : {GenerateNodeId("A")}, current_term : {1}] :
          HandleRaftMetrics(m)
    \/ \E t \in MsgTypes : \E b \in BodiesFor(t) :
          /\ Len(inbound) + Len(outbound) < MaxRpc
          /\ HandleSendToRaft(t, b)
    \/ \E r \in 1..Len(inbound) : \E res \in RaftOutcomes(r) :
          SendToRaftFuture(r, res)
    \/ \E msg \in Requests :
          /\ Len(inbound) + Len(outbound) < MaxRpc
          /\ msg.term = 1
          /\ \/ HandleAppendEntriesRequest(msg)
             \/ HandleVoteRequest(msg)
             \/ HandleInstallSnapshotRequest(msg)
    \/ \E o \in 1..Len(outbound) : \E res \in NodeOutcomes(o) :
          RouteFuture(o, res)

Spec == Init /\ [][Next]_vars

\* The environment of the bootstrap: any configuration, any peer announcing
\* itself at any time, the timer
NextBoot ==
    \/ \E ps \in SeqsUpTo(Addrs, MaxPeers) :
          /\ ps # << >>
          /\ Len(peers) + Len(ps) <= MaxPeers
          /\ Peers(ps)
    \/ \E a \in Addrs : Listen(a)
    \/ Started
    \/ SettleTimer
    \/ \E pid \in NodeIds \ {id} :
          /\ Len(nodes_connected) <= MaxAnnounced
          /\ HandlePeerConnected(pid, Len(nodes_connected))

SpecBoot == Init /\ [][NextBoot]_vars

\* The snapshots an engine may push
MetricsMsgs == [id : NodeIds, current_term : 1..MaxTerm]

\* The environment of the metrics store: a node that starts and settles
\* either way, and snapshots of any node in any order
NextMetrics ==
    \/ \E a \in {"A"} : Listen(a)
    \/ Started
    \/ SettleTimer
    \/ \E pid \in {GenerateNodeId("B")} :
          /\ Len(nodes_connected) < MaxConnected
          /\ HandlePeerConnected(pid, Len(nodes_connected))
    \/ \E m \in MetricsMsgs : HandleRaftMetrics(m)

SpecMetrics == Init /\ [][NextMetrics]_vars

\* The environment of a node that lives on: the router's, with the engine's
\* requests coming only once there is an engine, and the future of
\* InitWithConfig resolving either way
NextLive ==
    \/ \E ps \in {<<"B", "C">>} : Len(peers) + Len(ps) <= MaxPeers /\ Peers(ps)
    \/ \E a \in {"A"} : Listen(a)
    \/ Started
    \/ SettleTimer
    \/ \E res \in InitOutcomes : InitFuture(res)
    \/ \E pid \in {GenerateNodeId("B")} :
          /\ Len(nodes_connected) <= MaxConnected
          /\ HandlePeerConnected(pid, Len(nodes_connected))
    \/ \E m \in [id : {GenerateNodeId("A")}, current_term : {1}] :
          HandleRaftMetrics(m)
    \/ \E t \in MsgTypes : \E b \in BodiesFor(t) :
          /\ Len(inbound) + Len(outbound) < MaxLiveRpc
          /\ HandleSendToRaft(t, b)
    \/ \E r \in 1..Len(inbound) : \E res \in RaftOutcomes(r) :
          SendToRaftFuture(r, res)
    \/ \E msg \in Requests :
          /\ raft.some
          /\ Len(inbound) + Len(outbound) < MaxLiveRpc
          /\ msg.term = 1
          /\ \/ HandleAppendEntriesRequest(msg)
             \/ HandleVoteRequest(msg)
             \/ HandleInstallSnapshotRequest(msg)
    \/ \E o \in 1..Len(outbound) : \E res \in NodeOutcomes(o) :
          RouteFuture(o, res)

\* The timer of ctx.run_later expires once its duration has passed, as long
\* as the actor lives
SpecLive == Init /\ [][NextLive]_vars /\ WF_vars(SettleTimer)

\* The environment of the registry: any configured peers, peer B announcing
\* itself, and an engine that addresses the other members of its membership
NextRegistry ==
    \/ \E ps \in SeqsUpTo(Addrs, MaxPeers) :
          /\ ps # << >>
          /\ Len(peers) + Len(ps) <= MaxPeers
          /\ Peers(ps)
    \/ \E a \in {"A"} : Listen(a)
    \/ Started
    \/ SettleTimer
    \/ \E res \in InitOutcomes : InitFuture(res)
    \/ \E pid \in {GenerateNodeId("B")} :
          /\ Len(nodes_connected) < MaxConnected
          /\ HandlePeerConnected(pid, Len(nodes_connected))
    \/ \E m \in [id : {GenerateNodeId("A")}, current_term : {1}] :
          HandleRaftMetrics(m)
    \/ \E t \in {"VoteRequest"} : \E b \in BodiesFor(t) :
          /\ Len(inbound) + Len(outbound) < MaxRegistryRpc
          /\ HandleSendToRaft(t, b)
    \/ \E r \in 1..Len(inbound) : \E res \in RaftOutcomes(r) :
          SendToRaftFuture(r, res)
    \/ \E msg \in Requests :
          /\ raft.some
          /\ msg.target \in Range(raft.val.members) \ {id}
          /\ Len(inbound) + Len(outbound) < MaxRegistryRpc
          /\ msg.term = 1
          /\ \/ HandleAppendEntriesRequest(msg)
             \/ HandleVoteRequest(msg)
             \/ HandleInstallSnapshotRequest(msg)
    \/ \E o \in 1..Len(outbound) : \E res \in NodeOutcomes(o) :
          RouteFuture(o, res)

SpecRegistry == Init /\ [][NextRegistry]_vars

----------------------------------------------------------------------------
(* Properties *)

\* The step in which the settle timer expires
SettleStep == timer = "armed" /\ timer' = "fired"

\* C1: the state starts as Initialized; it changes only in the step in which
\* the settle timer expires, from Initialized to SingleNode or Cluster; that
\* step happens at most once and always changes it, so that no message
\* handled afterwards (PeerConnected, SendToRaft, an engine request, metrics)
\* changes it again.
C1_StateChangesOnceAtTimer ==
    /\ state = "Initialized"
    /\ [][/\ state' # state =>
               /\ SettleStep
               /\ state = "Initialized"
               /\ state' \in {"SingleNode", "Cluster"}
          /\ SettleStep => state' # state
          /\ timer = "fired" => timer' = "fired"]_vars

C1_Witness ==
    /\ state = "Cluster"
    /\ Len(nodes_connected) > Len(raft.val.members)
    /\ \E r \in 1..Len(inbound) : inbound[r].fut = "done"
    /\ \E o \in 1..Len(outbound) : outbound[o].fut = "done"
    /\ metrics # << >>

\* C2: when the settle timer expires the new state is a function of the
\* length of nodes_connected alone: Cluster when it is more than 1, SingleNode
\* otherwise, and then the list is the local id alone and no PeerConnected
\* was handled.
C2_DecisionByLength ==
    [][SettleStep =>
         /\ state' = IF Len(nodes_connected) > 1 THEN "Cluster" ELSE "SingleNode"
         /\ Len(nodes_connected) <= 1 =>
               nodes_connected = <<id>> /\ sessions = << >>
         /\ Len(nodes_connected) > 1 => sessions # << >>]_vars

C2_Witness ==
    /\ timer = "fired"
    /\ state = "Cluster"
    /\ Len(raft.val.members) = 2
    /\ nodes = << >>

\* The bootstrap scenario of three nodes A, B, C as one of them sees it: it
\* listens on its own address and is configured with the other two
ThreeNodes ==
    /\ address.some
    /\ Range(peers) = Addrs \ {address.val}

Others == {GenerateNodeId(a) : a \in Addrs \ {address.val}}

\* C3 as stated: in the scenario, once the timer has expired the node is in
\* Cluster and the engine's membership is {id(A), id(B), id(C)}.
C3_Original ==
    (ThreeNodes /\ timer = "fired") =>
        /\ state = "Cluster"
        /\ raft.some
        /\ Range(raft.val.members) = NodeIds

\* C3, amended: in the scenario, when both other nodes have announced
\* themselves before the timer expires, the timer puts the node in Cluster
\* and hands the engine the membership {id(A), id(B), id(C)}.
C3_ClusterWhenBothAnnounced ==
    [][(ThreeNodes /\ SettleStep /\ Others \subseteq DOMAIN sessions) =>
          /\ state' = "Cluster"
          /\ raft'.some
          /\ Range(raft'.val.members) = NodeIds]_vars

C3_Witness ==
    /\ ThreeNodes
    /\ timer = "fired"
    /\ state = "Cluster"
    /\ Range(raft.val.members) = NodeIds
    /\ Len(raft.val.members) = 3

----------------------------------------------------------------------------
(* Properties of the router *)

\* The messages the engine was sent for inbound request r
FromInbound(mailbox, r) == {i \in 1..Len(mailbox) : mailbox[i].from = r}

\* The request of message type t that body is the JSON of, if there is one
Decodable(t, body) == {m \in Requests : m.type = t /\ to_string(m) = body}

\* The step handles one more SendToRaft message / one more engine request
InboundStep == Len(inbound') = Len(inbound) + 1
OutboundStep == Len(outbound') = Len(outbound) + 1
NewInbound == inbound'[Len(inbound')]
NewOutbound == outbound'[Len(outbound')]

EmptySuccess == Some(Ok(EmptyString))

\* C5: a SendToRaft message whose type is none of the three is answered at
\* once with Ok(""), whatever the state and whether or not there is an
\* engine; it does not stop the actor (not even with a body that is not
\* JSON, so the body is not decoded) and nothing is sent to the engine for it.
C5_UnknownKindEmptySuccess ==
    \A r \in 1..Len(inbound) :
        inbound[r].type_id \notin Recognized =>
            /\ inbound[r].fut = "none"
            /\ inbound[r].reply = EmptySuccess
            /\ FromInbound(raft_mailbox, r) = {}

C5_Witness ==
    /\ raft.some
    /\ \E r \in 1..Len(inbound) : \E q \in 1..(r - 1) :
          /\ inbound[q].fut \in {"pending", "done"}
          /\ inbound[r].type_id \notin Recognized
          /\ inbound[r].body = Garbage
          /\ inbound[r].reply = EmptySuccess

\* C6: a SendToRaft message handled while there is no engine (the state is
\* Initialized or SingleNode) is answered in that step with Ok(""): nothing is
\* put in the engine's mailbox and the actor goes on; a message answered at
\* once is settled for good, and no later step, not even after the switch to
\* Cluster, sends the engine anything for it.
C6_NoEngineEmptySuccess ==
    [][/\ (InboundStep /\ (~raft.some \/ state # "Cluster")) =>
             /\ NewInbound.fut = "none"
             /\ NewInbound.reply = EmptySuccess
             /\ raft_mailbox' = raft_mailbox
             /\ phase' = phase
       /\ \A r \in 1..Len(inbound) :
             inbound[r].fut = "none" =>
                 /\ inbound'[r] = inbound[r]
                 /\ FromInbound(raft_mailbox', r) = {}]_vars

C6_Witness ==
    /\ state = "Cluster"
    /\ \E r \in 1..Len(inbound) : \E q \in (r + 1)..Len(inbound) :
          /\ inbound[r].type_id \in Recognized
          /\ Decodable(inbound[r].type_id, inbound[r].body) # {}
          /\ inbound[r].fut = "none"
          /\ inbound[r].reply = EmptySuccess
          /\ inbound[q].fut = "done"

\* Request r is in the engine's mailbox once, as the request its body encodes
C7_Forwarded(r) ==
    LET sent == FromInbound(raft_mailbox, r)
    IN  /\ Cardinality(sent) = 1
        /\ \A i \in sent :
              raft_mailbox[i].msg \in Decodable(inbound[r].type_id, inbound[r].body)

\* The reply to request r is the JSON of the engine's answer to r
C7_Answered(r) ==
    IF inbound[r].answer.some
    THEN /\ \A i \in FromInbound(raft_mailbox, r) :
               inbound[r].answer.val \in Results(raft_mailbox[i].msg)
         /\ inbound[r].reply = Some(Ok(to_string(inbound[r].answer.val)))
    ELSE inbound[r].reply = Some(Err)

\* C7: with an engine present, a SendToRaft message of one of the three types
\* whose body decodes is forwarded in the handling step: the engine's mailbox
\* gains exactly the decoded request.  Every forwarded request is in the
\* engine's mailbox exactly once; when its future resolves the caller gets
\* Ok(JSON of the engine's answer to that request), or Err(()) when the
\* engine's mailbox failed; and the step that resolves one request leaves
\* every other request as it was, in whatever order the engine answers.
C7_ForwardedOnceAnsweredOwn ==
    /\ [](\A r \in 1..Len(inbound) :
             /\ inbound[r].fut \in {"pending", "done"} => C7_Forwarded(r)
             /\ inbound[r].fut = "done" => C7_Answered(r)
             /\ inbound[r].fut = "pending" => inbound[r].reply = None)
    /\ [][/\ (/\ InboundStep
              /\ raft.some
              /\ NewInbound.type_id \in Recognized
              /\ Decodable(NewInbound.type_id, NewInbound.body) # {}) =>
                 /\ NewInbound.fut = "pending"
                 /\ \E m \in Decodable(NewInbound.type_id, NewInbound.body) :
                       raft_mailbox' = Append(raft_mailbox,
                                              [msg |-> m, from |-> Len(inbound')])
          /\ \A r \in 1..Len(inbound) :
                inbound'[r] # inbound[r] =>
                    /\ inbound[r].fut = "pending"
                    /\ raft_mailbox' = raft_mailbox
                    /\ \A q \in 1..Len(inbound) \ {r} : inbound'[q] = inbound[q]]_vars

C7_Witness ==
    /\ Len(inbound) = 2
    /\ inbound[1].fut = "pending"
    /\ inbound[2].fut = "done"
    /\ inbound[2].answer.some
    /\ inbound[2].reply = Some(Ok(to_string(inbound[2].answer.val)))
    /\ inbound[1].type_id # inbound[2].type_id

\* C8 as stated: whatever the state, a SendToRaft message of one of the three
\* types whose body does not decode stops the actor: no reply, nothing sent to
\* the engine.
C8_Original ==
    \A r \in 1..Len(inbound) :
        (/\ inbound[r].type_id \in Recognized
         /\ Decodable(inbound[r].type_id, inbound[r].body) = {}) =>
            /\ inbound[r].fut = "panicked"
            /\ inbound[r].reply = None
            /\ FromInbound(raft_mailbox, r) = {}

\* C8, amended: a SendToRaft message of one of the three types whose body does
\* not decode stops the actor when there is an engine: the caller gets no
\* reply, the engine gets nothing, and no step follows.  When there is no
\* engine the body is not decoded and the caller gets Ok("").
C8_DecodeFailure ==
    [][/\ (/\ InboundStep
           /\ NewInbound.type_id \in Recognized
           /\ Decodable(NewInbound.type_id, NewInbound.body) = {}) =>
              /\ raft_mailbox' = raft_mailbox
              /\ IF raft.some
                 THEN /\ NewInbound.fut = "panicked"
                      /\ NewInbound.reply = None
                      /\ phase' = "panicked"
                 ELSE /\ NewInbound.fut = "none"
                      /\ NewInbound.reply = EmptySuccess
                      /\ phase' = phase
       /\ phase # "panicked"]_vars

C8_Witness ==
    /\ phase = "panicked"
    /\ state = "Cluster"
    /\ Len(inbound) = 2
    /\ inbound[1].fut = "pending"
    /\ inbound[2].fut = "panicked"
    /\ inbound[2].type_id \in Recognized
    /\ inbound[2].body = Garbage
    /\ inbound[2].reply = None

\* The messages the Node actors were sent for engine request o
C9_Sent(o) ==
    LET sent == FromInbound(node_mailbox, o)
        msg == outbound[o].msg
    IN  /\ Cardinality(sent) = 1
        /\ msg.target \in DOMAIN nodes
        /\ \A i \in sent :
              /\ node_mailbox[i].to = nodes[msg.target]
              /\ node_mailbox[i].to.id = msg.target
              /\ node_mailbox[i].msg = SendRaftMessage(msg)

\* C9: an engine request of any of the three types whose target is in the
\* registry is sent, in the handling step, once to the handle registered for
\* the target, whatever the state, the connected list and the sessions are;
\* it is in no other mailbox and never sent again; when the Node answers, the
\* engine gets that answer unchanged.
C9_RoutedOnceToTarget ==
    /\ [](\A o \in 1..Len(outbound) :
             /\ outbound[o].fut \in {"pending", "done"} => C9_Sent(o)
             /\ outbound[o].fut = "done" =>
                   /\ outbound[o].answer.some
                   /\ outbound[o].answer.val \in Results(outbound[o].msg)
                   /\ outbound[o].reply = outbound[o].answer)
    /\ [][/\ (OutboundStep /\ NewOutbound.msg.target \in DOMAIN nodes) =>
                 /\ NewOutbound.fut = "pending"
                 /\ phase' = phase
                 /\ node_mailbox' = Append(node_mailbox,
                        [to |-> nodes[NewOutbound.msg.target],
                         msg |-> SendRaftMessage(NewOutbound.msg),
                         from |-> Len(outbound')])
          /\ ~OutboundStep => node_mailbox' = node_mailbox]_vars

C9_Witness ==
    /\ state = "Cluster"
    /\ Len(outbound) = 2
    /\ \A o \in {1, 2} :
          /\ outbound[o].fut = "done"
          /\ outbound[o].reply = outbound[o].answer
    /\ \E o \in {1, 2} : outbound[o].msg.target \notin DOMAIN sessions
    /\ outbound[1].msg.target # outbound[2].msg.target
    /\ outbound[1].msg.type # outbound[2].msg.type

\* C10: an engine request of any of the three types whose target is not in
\* the registry stops the actor in the handling step: nothing is sent to any
\* Node, the engine gets neither a response nor an error, no step follows.
C10_UnknownTargetFatal ==
    [][/\ (OutboundStep /\ NewOutbound.msg.target \notin DOMAIN nodes) =>
             /\ NewOutbound.fut = "panicked"
             /\ NewOutbound.answer = None
             /\ NewOutbound.reply = None
             /\ phase' = "panicked"
             /\ node_mailbox' = node_mailbox
       /\ phase # "panicked"]_vars

C10_Witness ==
    /\ phase = "panicked"
    /\ state = "Cluster"
    /\ Len(outbound) = 2
    /\ outbound[1].fut = "pending"
    /\ outbound[2].fut = "panicked"
    /\ outbound[2].msg.target \notin DOMAIN nodes
    /\ outbound[2].reply = None
    /\ Len(node_mailbox) = 1

----------------------------------------------------------------------------
(* Properties of the registry, the tracker and the membership *)

\* The configured addresses that Actor::started registers
Registered == Range(peers) \ {address.val}

\* C11: once the actor runs, the registry has exactly one entry per distinct
\* configured address other than the node's own, keyed by the id derived
\* from the address, however often the address is listed; registering an
\* address again changes nothing but that entry, which the later registration
\* overwrites (here an entry made before listen set the local id).
C11_OneEntryPerAddress ==
    phase = "running" =>
        /\ DOMAIN nodes = {GenerateNodeId(a) : a \in Registered}
        /\ Cardinality(DOMAIN nodes) = Cardinality(Registered)
        /\ \A a \in Registered :
              nodes[GenerateNodeId(a)] = NewNode(GenerateNodeId(a), id, a)
        /\ \A a \in Addrs :
              LET k == GenerateNodeId(a)
                  once == RegisterNode(nodes, id, a)
                  stale == Insert(nodes, k, NewNode(k, 0, a))
              IN  /\ RegisterNode(once, id, a) = once
                  /\ DOMAIN once = DOMAIN nodes \cup {k}
                  /\ once[k] = NewNode(k, id, a)
                  /\ RegisterNode(stale, id, a) = once

C11_Witness ==
    /\ phase = "running"
    /\ Len(peers) = 2
    /\ peers[1] = peers[2]
    /\ peers[1] # address.val
    /\ Cardinality(DOMAIN nodes) = 1

\* C13: the step in which the timer expires leaves nodes_connected as it is
\* and, when it decides for Cluster, builds the engine with exactly that list
\* (same ids, order and multiplicity, the local id in it) and sends the same
\* list in InitWithConfig; no other step changes the engine or the state, so
\* a PeerConnected handled after the timer only appends to nodes_connected.
C13_MembershipIsListAtTimer ==
    [][/\ SettleStep =>
             /\ nodes_connected' = nodes_connected
             /\ state' = "Cluster" =>
                   /\ raft'.some
                   /\ raft'.val.id = id
                   /\ raft'.val.members = nodes_connected
                   /\ id \in Range(raft'.val.members)
       /\ ~SettleStep => raft' = raft /\ state' = state
       /\ (timer = "fired" /\ nodes_connected' # nodes_connected) =>
             /\ \E pid \in NodeIds :
                   nodes_connected' = Append(nodes_connected, pid)
             /\ raft' = raft
             /\ state' = state]_vars

C13_Witness ==
    /\ state = "Cluster"
    /\ raft.val.members = <<id, GenerateNodeId("B"), GenerateNodeId("B")>>
    /\ Len(nodes_connected) = 4
    /\ SubSeq(nodes_connected, 1, 3) = raft.val.members
    /\ nodes_connected[4] = GenerateNodeId("C")

\* The handle that came with the PeerConnected whose id is entry i of
\* nodes_connected: sessions are numbered in the order they announce
HandleOf(i) == i - 1

\* The last entry of nodes_connected, after the first, that holds id k
LastEntry(k) ==
    CHOOSE i \in 2..Len(nodes_connected) :
        /\ nodes_connected[i] = k
        /\ \A j \in (i + 1)..Len(nodes_connected) : nodes_connected[j] # k

\* C18: once the actor runs, nodes_connected is the local id followed by the
\* ids of the PeerConnected messages handled, in order: every step leaves it
\* alone or appends one id.  sessions holds, for each id announced, the handle
\* of the last announcement of that id, and the ids in the list are the local
\* id and the keys of sessions.
C18_ListAndSessions ==
    /\ [](phase = "running" =>
            /\ nodes_connected[1] = id
            /\ DOMAIN sessions = Range(Tail(nodes_connected))
            /\ \A k \in DOMAIN sessions : sessions[k] = HandleOf(LastEntry(k))
            /\ Range(nodes_connected) = {id} \cup DOMAIN sessions)
    /\ [][phase = "running" =>
            \/ nodes_connected' = nodes_connected /\ sessions' = sessions
            \/ \E pid \in NodeIds :
                  nodes_connected' = Append(nodes_connected, pid)]_vars

C18_Witness ==
    /\ Len(nodes_connected) = 4
    /\ nodes_connected[2] = nodes_connected[4]
    /\ nodes_connected[3] # nodes_connected[2]
    /\ sessions[nodes_connected[4]] = HandleOf(4)
    /\ sessions[nodes_connected[3]] = HandleOf(3)

\* C19 as stated: in Cluster the membership handed to the engine holds the
\* local id once, at least one other id, and no id twice.
C19_Original ==
    state = "Cluster" =>
        /\ raft.some
        /\ LET m == raft.val.members
           IN  /\ Cardinality({i \in 1..Len(m) : m[i] = id}) = 1
               /\ \E i \in 1..Len(m) : m[i] # id
               /\ \A i, j \in 1..Len(m) : i # j => m[i] # m[j]

\* C12: a RaftMetrics message is handled whenever the actor runs, whatever
\* the state and whatever is stored, and leaves the snapshot m it carries
\* stored under m.id in place of what was there; it keeps every other entry
\* and changes nothing but the metrics map.  Every stored snapshot sits
\* under its own id, one per id, and iteration visits the ids in strictly
\* ascending order.
C12_LastSnapshotPerId ==
    /\ [](/\ \A k \in DOMAIN metrics : metrics[k].id = k
          /\ LET it == Iterate(metrics)
             IN  /\ Len(it) = Cardinality(DOMAIN metrics)
                 /\ \A i \in 1..Len(it) : metrics[it[i][1]] = it[i][2]
                 /\ \A i, j \in 1..Len(it) : i < j => it[i][1] < it[j][1]
          /\ phase = "running" =>
                \A m \in MetricsMsgs :
                   ENABLED (HandleRaftMetrics(m) /\ metrics'[m.id] = m))
    /\ [][\A m \in MetricsMsgs : HandleRaftMetrics(m) =>
             /\ DOMAIN metrics' = DOMAIN metrics \cup {m.id}
             /\ metrics'[m.id] = m
             /\ \A k \in DOMAIN metrics \ {m.id} : metrics'[k] = metrics[k]
             /\ UNCHANGED <<id, address, raft, peers, nodes, nodes_connected,
                            listener, state, sessions, phase, timer, inbound,
                            raft_mailbox, outbound, node_mailbox,
                            init_future>>]_vars

C12_Witness ==
    /\ state = "Cluster"
    /\ DOMAIN metrics = NodeIds
    /\ metrics[id].current_term = MaxTerm
    /\ \E k \in DOMAIN metrics : metrics[k].current_term < MaxTerm
    /\ \E m \in MetricsMsgs :
          /\ metrics[m.id] # m
          /\ ENABLED (HandleRaftMetrics(m) /\ metrics'[m.id] = m)

\* C14: in every state there is an engine exactly when the state is Cluster;
\* the step that sets Cluster is the step that builds the engine.
C14_EngineIffCluster ==
    /\ raft.some <=> state = "Cluster"
    /\ state \in {"Initialized", "SingleNode"} => raft = None

C14_Witness ==
    /\ state = "Cluster"
    /\ raft.some
    /\ \E r \in 1..Len(inbound) : inbound[r].fut = "pending"

\* C15: the timer is armed by the step that starts the actor and by no other;
\* once armed it only changes by expiring, once; an actor that runs has an
\* armed or expired timer, and with the timer firing when it can, an actor
\* that runs gets out of Initialized, whatever else it handles meanwhile.
C15_TimerFiresOnce ==
    /\ [](phase = "running" => timer # "unarmed")
    /\ [][timer' # timer =>
             \/ /\ timer = "unarmed" /\ timer' = "armed"
                /\ phase = "new" /\ phase' = "running"
             \/ /\ SettleStep
                /\ state = "Initialized"
                /\ state' \in {"SingleNode", "Cluster"}]_vars
    /\ (phase = "running") ~> (state # "Initialized")

C15_Witness ==
    /\ timer = "fired"
    /\ state = "SingleNode"
    /\ Len(nodes_connected) > 1
    /\ metrics # << >>
    /\ Len(inbound) > 0

\* The InitWithConfig messages sent to the engine
InitMsgs ==
    {i \in 1..Len(raft_mailbox) : raft_mailbox[i].msg.type = "InitWithConfig"}

FailedInit == init_future.fut = "done" /\ init_future.res # "Ok"

\* C16: the engine was sent exactly one InitWithConfig when the state is
\* Cluster and none otherwise, with the members the engine was built with.
\* Whatever the future of that message resolves to, the step leaves state,
\* engine and the engine's mailbox as they are; after a failure the engine is
\* still there, and a SendToRaft message of a known type with a body that
\* decodes is still forwarded to it.
C16_InitOnceFailureSwallowed ==
    /\ [](/\ state = "Cluster" =>
                /\ raft.some
                /\ Cardinality(InitMsgs) = 1
                /\ \A i \in InitMsgs :
                      raft_mailbox[i].msg.members = raft.val.members
                /\ init_future.fut \in {"pending", "done"}
          /\ state # "Cluster" => InitMsgs = {} /\ init_future = NoFuture
          /\ FailedInit => state = "Cluster" /\ raft.some)
    /\ [][/\ init_future' # init_future /\ ~SettleStep =>
                /\ init_future.fut = "pending"
                /\ init_future'.fut = "done"
                /\ UNCHANGED <<netvars, phase, raft_mailbox>>
          /\ (FailedInit /\ InboundStep /\ NewInbound.type_id \in Recognized
                /\ Decodable(NewInbound.type_id, NewInbound.body) # {}) =>
                /\ NewInbound.fut = "pending"
                /\ Len(raft_mailbox') = Len(raft_mailbox) + 1
                /\ raft_mailbox'[Len(raft_mailbox')].msg
                      \in Decodable(NewInbound.type_id, NewInbound.body)
                /\ phase' = "running"]_vars

C16_Witness ==
    /\ FailedInit
    /\ state = "Cluster"
    /\ raft.some
    /\ Cardinality(InitMsgs) = 1
    /\ \E r \in 1..Len(inbound) :
          /\ inbound[r].fut = "done"
          /\ inbound[r].answer.some

\* C17: from the start of the actor on, the registry has no entry under the
\* local id, and no step changes it: not the timer, not a PeerConnected, not
\* a message in either direction, not a metrics snapshot.
C17_RegistryFixedAfterStart ==
    /\ [](phase # "new" => id \notin DOMAIN nodes)
    /\ [][phase # "new" => nodes' = nodes]_vars

C17_Witness ==
    /\ phase = "running"
    /\ address.val \in Range(peers)
    /\ nodes # << >>
    /\ timer = "fired"
    /\ Len(nodes_connected) > 1
    /\ metrics # << >>
    /\ \E o \in 1..Len(outbound) : outbound[o].fut = "done"

\* Request o of the engine died on get_node(..).unwrap(): nothing was sent
C20_Fatal(o) ==
    /\ outbound[o].fut = "panicked"
    /\ FromInbound(node_mailbox, o) = {}

\* C20 as stated: every member of the engine's membership but the node
\* itself is in the registry, and no request the engine addresses to such a
\* member dies on the lookup.
C20_Original ==
    raft.some =>
        /\ \A m \in Range(raft.val.members) \ {id} : m \in DOMAIN nodes
        /\ \A o \in 1..Len(outbound) :
              outbound[o].msg.target \in Range(raft.val.members) \ {id}
                 => ~C20_Fatal(o)

====
